---- MODULE Spec2Model ----
(***************************************************************************)
(* beacon-cache-proxy: the disk cache (cache package), the caching router  *)
(* (main.go), the retention pruner (main.go) and the warming loop          *)
(* (tickler).                                                              *)
(*                                                                         *)
(* Byte strings (file names, epoch parameters, HTTP bodies, file contents) *)
(* are sequences of byte values.  Text uses its ASCII codes.               *)
(***************************************************************************)
EXTENDS Integers, Sequences, FiniteSets, TLC

\* ------------------------------------------------------------------ bounds
\* Largest epoch the clients and the upstream's finality checkpoint name.
MaxEpoch == 11
\* Largest committees message the upstream serves (messages 1..MaxMsg).
MaxMsg == 2
\* Number of concurrently running request handlers of the HTTP server.
NumHandlers == 2
\* The -retain flag values the process is started with: 0..MaxRetain.
MaxRetain == 2

\* ------------------------------------------------------- program constants
\* warmingRead pre-loads keys start+1 .. start+32.
LookAhead == 32
\* lru.New[string, []byte](256)
LruSize == 256
\* http.StatusOK
StatusOK == 200
\* HTTP statuses that are not 200: the one httputil.ReverseProxy's default
\* ErrorHandler answers with (502), and one the upstream answers with (503).
Status == [badGateway |-> 502, unavailable |-> 503]

\* -------------------------------------------------------------- text codes
\* ASCII: '0', '9', '{', '}', ' ', 'e', 'x'
Ascii == [zero |-> 48, nine |-> 57, lbrace |-> 123, rbrace |-> 125,
          space |-> 32, e |-> 101, x |-> 120]
Digit0 == Ascii.zero
Digit9 == Ascii.nine
LBrace == Ascii.lbrace
RBrace == Ascii.rbrace
Space == Ascii.space
\* ".pb"
PbSuffix == <<46, 112, 98>>

\* The epochs in play: 9 has one digit, the later ones two.
Epochs == 9..MaxEpoch

\* fmt.Sprint(i) / "%d": the canonical base-10 text of a natural number.
RECURSIVE Sprint(_)
Sprint(n) ==
    IF n < 10 THEN <<Digit0 + n>>
    ELSE Append(Sprint(n \div 10), Digit0 + (n % 10))

IsDigits(s) == Len(s) > 0 /\ \A i \in 1..Len(s) : s[i] >= Digit0 /\ s[i] <= Digit9

RECURSIVE DigitsValue(_)
DigitsValue(s) ==
    IF Len(s) = 0 THEN 0
    ELSE 10 * DigitsValue(SubSeq(s, 1, Len(s) - 1)) + (s[Len(s)] - Digit0)

\* A parse that takes any non-empty text for a number.
ParseUint_Lenient(s) == [ok |-> Len(s) > 0, val |-> DigitsValue(s)]

\* strconv.ParseUint(s, 10, 64): [ok, val].  The 64-bit range error is out
\* of reach of the epochs modelled here (all below 2^31).
ParseUint(s) ==
    IF IsDigits(s) THEN [ok |-> TRUE, val |-> DigitsValue(s)]
    ELSE [ok |-> FALSE, val |-> 0]

\* Go's string comparison a < b: byte-wise, a proper prefix sorts first.
RECURSIVE StrLess(_, _)
StrLess(a, b) ==
    IF Len(b) = 0 THEN FALSE
    ELSE IF Len(a) = 0 THEN TRUE
    ELSE IF a[1] # b[1] THEN a[1] < b[1]
    ELSE StrLess(Tail(a), Tail(b))

\* The names sorted by the number before the suffix.
RECURSIVE SortStrings_Numeric(_)
SortStrings_Numeric(S) ==
    IF S = {} THEN <<>>
    ELSE LET val(x) == DigitsValue(SubSeq(x, 1, Len(x) - Len(<<46, 112, 98>>)))
             m == CHOOSE x \in S : \A y \in S : val(x) <= val(y)
         IN <<m>> \o SortStrings_Numeric(S \ {m})

\* sort.Strings over the names of a directory listing.
RECURSIVE SortStrings(_)
SortStrings(S) ==
    IF S = {} THEN <<>>
    ELSE LET m == CHOOSE x \in S : \A y \in S : y = x \/ StrLess(x, y)
         IN <<m>> \o SortStrings(S \ {m})

\* ---------------------------------------------------- the wire formats
\* The upstream's JSON text of committees message m, and protojson's text
\* of it: the same document, differently spaced.
UpstreamJson(m) == <<LBrace, Space, Digit0 + m, RBrace>>
CanonJson(m) == <<LBrace, Digit0 + m, RBrace>>
\* An error document of the upstream: JSON, but no committees message.
ErrorJson == <<LBrace, Ascii.e, RBrace>>
EmptyBody == <<>>

StripSpace(s) == SelectSeq(s, LAMBDA c : c # Space)

\* protojson.Unmarshal(value, &m): [ok, msg].
JsonUnmarshal(value) ==
    LET t == StripSpace(value)
    IN IF Len(t) = 3 /\ t[1] = LBrace /\ t[3] = RBrace
          /\ t[2] >= Digit0 /\ t[2] <= Digit9
       THEN [ok |-> TRUE, msg |-> t[2] - Digit0]
       ELSE [ok |-> FALSE, msg |-> 0]

\* proto.Marshal(&m): message m takes m bytes; the empty message takes none.
ProtoMarshal(m) == [i \in 1..m |-> m]

\* proto.Unmarshal(pbData, &m): [ok, msg].
ProtoUnmarshal(b) ==
    IF \A i \in 1..Len(b) : b[i] = Len(b)
    THEN [ok |-> TRUE, msg |-> Len(b)]
    ELSE [ok |-> FALSE, msg |-> 0]

\* protoJsonOpts.Marshal(&m)
JsonMarshal(m) == CanonJson(m)

\* ------------------------------------------------------------- the store
fileName(key) == key \o PbSuffix

\* f.Write(bytes) on a descriptor at offset 0 of a file holding old.
WriteAt0(old, bytes) ==
    IF Len(bytes) >= Len(old) THEN bytes
    ELSE bytes \o SubSeq(old, Len(bytes) + 1, Len(old))

\* The directory without the names in gone (os.Remove of each).
RemoveFiles(fs, gone) == [n \in (DOMAIN fs) \ gone |-> fs[n]]

\* The directory with name holding bytes.
PutFile(fs, name, bytes) ==
    [n \in (DOMAIN fs) \cup {name} |-> IF n = name THEN bytes ELSE fs[n]]

\* A Peek that looks for the file under the suffix ".zstd".
Peek_OldSuffix(fs, key) == (key \o <<46, 122, 115, 116, 100>>) \in DOMAIN fs

\* diskCache.Peek: os.Stat finds the file.
Peek(fs, key) == fileName(key) \in DOMAIN fs

\* ------------------------------------------------- the warm accelerator
\* The LRU cache is the sequence of its entries, the least recent first.
LruHas(l, name) == \E i \in 1..Len(l) : l[i].name = name

LruGet(l, name) == l[CHOOSE i \in 1..Len(l) : l[i].name = name].data

\* lru.Cache.Add: insert or update as the most recent entry, and evict the
\* least recent one when over capacity.
LruAdd(l, name, data) ==
    LET rest == SelectSeq(l, LAMBDA e : e.name # name)
        all == Append(rest, [name |-> name, data |-> data])
    IN IF Len(all) > LruSize THEN Tail(all) ELSE all

\* warmingRead(k, true): a key that is not in the LRU cache and has a file
\* is read and added.
CacheOnly(fs, l, k) ==
    LET n == fileName(k)
    IN IF LruHas(l, n) \/ n \notin DOMAIN fs THEN l ELSE LruAdd(l, n, fs[n])

\* A look-ahead loop that goes one key too far.
RECURSIVE ReadAhead_OneMore(_, _, _, _)
ReadAhead_OneMore(fs, l, first, last) ==
    IF first > last + 1 THEN l
    ELSE CHOOSE r \in {ReadAhead_OneMore(fs, l2, first + 1, last) :
                          l2 \in {CacheOnly(fs, l, Sprint(first))}} : TRUE

\* The deferred loop of warmingRead: warmingRead(Sprint(i), true) for
\* i = first .. last in turn, l2 being the cache after the step for first.
RECURSIVE ReadAhead(_, _, _, _)
ReadAhead(fs, l, first, last) ==
    IF first > last THEN l
    ELSE CHOOSE r \in {ReadAhead(fs, l2, first + 1, last) :
                          l2 \in {CacheOnly(fs, l, Sprint(first))}} : TRUE

\* warmingRead(key, false): [found, data, lru].
warmingRead(fs, l, key) ==
    LET n == fileName(key)
        start == ParseUint(key)
    IN IF LruHas(l, n) THEN [found |-> TRUE, data |-> LruGet(l, n), lru |-> l]
       ELSE IF n \notin DOMAIN fs THEN [found |-> FALSE, data |-> <<>>, lru |-> l]
       ELSE [found |-> TRUE, data |-> fs[n],
             lru |-> IF start.ok
                     THEN ReadAhead(fs, l, start.val + 1, start.val + LookAhead)
                     ELSE l]

AcceptPb == "application/protobuf"
AcceptAny == "*/*"

\* diskCache.Get(header, key): the result ("present", "absent" or "error"),
\* the bytes and Content-Type returned, and the directory and LRU cache it
\* leaves.
Get(fs, l, accept, key) ==
    LET r == warmingRead(fs, l, key)
        m == ProtoUnmarshal(r.data)
    IN IF ~r.found
       THEN [res |-> "absent", body |-> <<>>, ctype |-> "", files |-> fs, lru |-> r.lru]
       ELSE IF accept = AcceptPb
       THEN [res |-> "present", body |-> r.data, ctype |-> "application/protobuf",
             files |-> fs, lru |-> r.lru]
       ELSE IF ~m.ok
       THEN [res |-> "error", body |-> <<>>, ctype |-> "",
             files |-> RemoveFiles(fs, {fileName(key)}), lru |-> r.lru]
       ELSE [res |-> "present", body |-> JsonMarshal(m.msg), ctype |-> "application/json",
             files |-> fs, lru |-> r.lru]

\* ------------------------------------------------------------- the state
VARIABLES
    files,      \* the data directory: file name -> bytes
    lru,        \* diskCache.c, the LRU cache of read-ahead blobs
    hs,         \* the request handlers of the HTTP server
    tk,         \* the tickler's goroutine, inside or between tickle() calls
    lastEpoch,  \* tickler.lastEpoch
    pr,         \* the pruning goroutine, inside or between prune() calls
    retain,     \* the -retain flag
    tkLoop,     \* the tickler's loop, its ticker and its done channel
    prLoop,     \* the pruning loop, its ticker and its done channel
    mainPc,     \* where main is, from waiting for the interrupt on
    born        \* history: the names created since Prune's ReadDir, while it runs

vars == <<files, lru, hs, tk, lastEpoch, pr, retain, tkLoop, prLoop, mainPc, born>>

Handlers == 1..NumHandlers
EpochStrs == {Sprint(e) : e \in Epochs}
NotANumber == <<Ascii.x>>

\* An upstream response as the proxy sees it; status 0 stands for a
\* transport error (no response at all).
NoResponse == [status |-> 0, body |-> EmptyBody]
OkBodies == {EmptyBody, ErrorJson} \cup {UpstreamJson(m) : m \in 1..MaxMsg}
UpResponses ==
    {[status |-> StatusOK, body |-> b] : b \in OkBodies}
    \cup {[status |-> Status.unavailable, body |-> ErrorJson], NoResponse}

\* What the upstream's finality_checkpoints answer holds: the status and
\* the text of data.finalized.epoch ("" when the body does not parse).
FinalityResponses ==
    {[status |-> StatusOK, epoch |-> s] : s \in EpochStrs \cup {NotANumber, <<>>}}
    \cup {[status |-> Status.unavailable, epoch |-> <<>>]}

\* A client request: the path, the epoch query parameter and Accept.
Requests ==
    {[path |-> "committees", hasEpoch |-> TRUE, epoch |-> s, accept |-> a] :
        s \in EpochStrs \cup {NotANumber}, a \in {AcceptPb, AcceptAny}}
    \cup {[path |-> p, hasEpoch |-> FALSE, epoch |-> <<>>, accept |-> AcceptAny] :
        p \in {"committees", "other"}}
    \cup {[path |-> "other", hasEpoch |-> TRUE, epoch |-> Sprint(9), accept |-> AcceptAny]}

NoClient == [status |-> 0, body |-> <<>>, ctype |-> ""]

IdleHandler ==
    [pc |-> "idle", route |-> "", hasKey |-> FALSE, key |-> <<>>,
     getRes |-> "none", nGet |-> 0, nUp |-> 0, nSet |-> 0,
     status |-> 0, value |-> <<>>, fd |-> "none", setRes |-> "none",
     client |-> NoClient]

IdleTickler ==
    [pc |-> "idle", outcome |-> "", key |-> <<>>, epoch |-> 0, peeked |-> FALSE,
     nUp |-> 0, nSet |-> 0, value |-> <<>>, fd |-> "none", setRes |-> "none"]

IdlePruner ==
    [pc |-> "idle", called |-> FALSE, listed |-> <<>>, todo |-> <<>>,
     removed |-> {}, ret |-> 0, err |-> FALSE]

\* A goroutine that calls its work once and then selects on its done channel
\* and its ticker's channel: where it is ("run": in or about to call the
\* work, "select", "exited"), whether the ticker is running, whether a tick
\* is waiting in the ticker's channel (capacity 1), the number of values in
\* the done channel (capacity 1), and whether that channel is closed.
StartedLoop ==
    [pc |-> "run", ticking |-> TRUE, tick |-> FALSE, done |-> 0, closed |-> FALSE]

\* The data directory the process starts on: any records left by an
\* earlier run, whole or cut short by a write that did not finish.
TornRecord == SubSeq(ProtoMarshal(MaxMsg), 1, MaxMsg - 1)
InitialDirs ==
    UNION {[{fileName(k) : k \in S} -> {ProtoMarshal(1), TornRecord}] :
              S \in SUBSET EpochStrs}

Init ==
    /\ files \in InitialDirs
    /\ lru = <<>>
    /\ hs = [h \in Handlers |-> IdleHandler]
    /\ tk = IdleTickler
    /\ lastEpoch = 0
    /\ pr = IdlePruner
    /\ retain \in 0..MaxRetain
    /\ tkLoop = StartedLoop
    /\ prLoop = StartedLoop
    /\ mainPc = "wait"
    /\ born = {}

\* ---------------------------------------------------------- diskCache.Set
\* A descriptor open on one of the names in gone is left on an unlinked
\* file.
Orphan(rec, gone) ==
    IF rec.fd = "live" /\ fileName(rec.key) \in gone
    THEN [rec EXCEPT !.fd = "orphan"] ELSE rec

\* Set without its existence check: it goes on to os.Create.
SetStat_Overwrite(rec, fs, after) == [rec EXCEPT !.pc = "setCreate"]

\* os.Stat(fileName); !os.IsNotExist(err) returns the error.
SetStat(rec, fs, after) ==
    IF fileName(rec.key) \in DOMAIN fs
    THEN [rec EXCEPT !.pc = after, !.setRes = "exists"]
    ELSE [rec EXCEPT !.pc = "setCreate"]

\* os.Create(fileName): creates the file, or truncates the one there.
SetCreateFiles(rec, fs) == PutFile(fs, fileName(rec.key), <<>>)

SetCreate(rec) == [rec EXCEPT !.pc = "setWrite", !.fd = "live"]

\* protojson.Unmarshal, proto.Marshal, f.Write; the deferred f.Close.
SetWriteFiles(rec, fs) ==
    LET m == JsonUnmarshal(rec.value)
        n == fileName(rec.key)
    IN IF m.ok /\ rec.fd = "live"
       THEN PutFile(fs, n, WriteAt0(fs[n], ProtoMarshal(m.msg)))
       ELSE fs

SetWrite(rec, after) ==
    [rec EXCEPT !.pc = after, !.fd = "none",
                !.setRes = IF JsonUnmarshal(rec.value).ok THEN "ok" ELSE "conv"]

\* ------------------------------------------------------ the caching router
\* A cache hit that writes the response and, without returning, goes on to
\* pass.
cacheHit_FallThrough(rec, g) ==
    [rec EXCEPT !.pc = "proxy",
                !.client = [status |-> StatusOK, body |-> g.body, ctype |-> g.ctype]]

\* cachedQuery on a present result: headers and body go to the client and
\* the handler returns.
cacheHit(rec, g) ==
    [rec EXCEPT !.pc = "done",
                !.client = [status |-> StatusOK, body |-> g.body, ctype |-> g.ctype]]

\* A cachedQuery that answers a failed c.Get with 500.
afterGet_ErrorToClient(rec, g) ==
    LET got == [rec EXCEPT !.nGet = rec.nGet + 1,
                           !.getRes = CASE g.res = "present" -> "hit"
                                        [] g.res = "absent" -> "miss"
                                        [] OTHER -> "err"]
    IN IF g.res = "error"
       THEN [got EXCEPT !.pc = "done",
                        !.client = [status |-> 500, body |-> <<>>, ctype |-> ""]]
       ELSE IF g.res = "present"
       THEN [got EXCEPT !.pc = "done",
                        !.client = [status |-> StatusOK, body |-> g.body,
                                    ctype |-> g.ctype]]
       ELSE [got EXCEPT !.pc = "proxy"]

\* cachedQuery after c.Get: an error or an absent result goes to pass.
afterGet(rec, g) ==
    LET got == [rec EXCEPT !.nGet = rec.nGet + 1,
                           !.getRes = CASE g.res = "present" -> "hit"
                                        [] g.res = "absent" -> "miss"
                                        [] OTHER -> "err"]
    IN IF g.res = "error" THEN [got EXCEPT !.pc = "proxy"]
       ELSE IF g.res = "present" THEN cacheHit(got, g)
       ELSE [got EXCEPT !.pc = "proxy"]

\* cachedQuery, from its entry to the return on a cache hit or to the jump
\* to pass, where cachingProxy.ServeHTTP sends the request upstream.
cachedQuery(h, req) ==
    LET lookup == req.hasEpoch /\ ParseUint(req.epoch).ok
        g == Get(files, lru, req.accept, req.epoch)
        gone == IF lookup THEN (DOMAIN files) \ (DOMAIN g.files) ELSE {}
        rec == [IdleHandler EXCEPT !.route = "cached", !.hasKey = req.hasEpoch,
                                   !.key = req.epoch]
    IN /\ hs[h].pc = "idle"
       /\ req.path = "committees" /\ req.hasEpoch
       /\ files' = IF lookup THEN g.files ELSE files
       /\ lru' = IF lookup THEN g.lru ELSE lru
       /\ hs' = [x \in Handlers |->
                    IF x # h THEN Orphan(hs[x], gone)
                    ELSE IF ~lookup THEN [rec EXCEPT !.pc = "proxy"]
                    ELSE afterGet(rec, g)]
       /\ tk' = Orphan(tk, gone)
       /\ UNCHANGED <<lastEpoch, pr, retain, tkLoop, prLoop, mainPc, born>>

\* The router's catch-all route: proxy.ServeHTTP sends the request upstream.
plainQuery(h, req) ==
    /\ hs[h].pc = "idle"
    /\ ~(req.path = "committees" /\ req.hasEpoch)
    /\ hs' = [hs EXCEPT ![h] = [IdleHandler EXCEPT !.route = "plain", !.pc = "proxy"]]
    /\ UNCHANGED <<files, lru, tk, lastEpoch, pr, retain, tkLoop, prLoop, mainPc, born>>

\* An onCachingProxyResponse that never calls c.Set.
onCachingProxyResponse_NoSet(r) == [r EXCEPT !.pc = "deliver"]

\* onCachingProxyResponse, on the response r.status, r.value: the body is
\* read, and the deferred function calls c.Set when the request has a
\* numeric epoch variable.
onCachingProxyResponse(r) ==
    IF ~r.hasKey THEN [r EXCEPT !.pc = "deliver"]
    ELSE IF ~ParseUint(r.key).ok THEN [r EXCEPT !.pc = "deliver"]
    ELSE [r EXCEPT !.pc = "setStat", !.nSet = r.nSet + 1]

\* The upstream's answer reaches the reverse proxy.  On a transport error
\* ModifyResponse is not called; proxy, the plain one, has none.
ProxyResponse(h, resp) ==
    LET r == [hs[h] EXCEPT !.nUp = hs[h].nUp + 1, !.status = resp.status,
                           !.value = resp.body]
    IN /\ hs[h].pc = "proxy"
       /\ hs' = [hs EXCEPT ![h] =
                    IF resp.status = 0 \/ r.route = "plain" THEN [r EXCEPT !.pc = "deliver"]
                    ELSE onCachingProxyResponse(r)]
       /\ UNCHANGED <<files, lru, tk, lastEpoch, pr, retain, tkLoop, prLoop, mainPc, born>>

\* History: os.Create by rec makes a file that was not there, while Prune
\* is between its ReadDir and its return.
Born(rec) ==
    IF pr.pc = "remove" /\ fileName(rec.key) \notin DOMAIN files
    THEN born \cup {fileName(rec.key)} ELSE born

HandlerSetStat(h) ==
    /\ hs[h].pc = "setStat"
    /\ hs' = [hs EXCEPT ![h] = SetStat(hs[h], files, "deliver")]
    /\ UNCHANGED <<files, lru, tk, lastEpoch, pr, retain, tkLoop, prLoop, mainPc, born>>

HandlerSetCreate(h) ==
    /\ hs[h].pc = "setCreate"
    /\ files' = SetCreateFiles(hs[h], files)
    /\ hs' = [hs EXCEPT ![h] = SetCreate(hs[h])]
    /\ born' = Born(hs[h])
    /\ UNCHANGED <<lru, tk, lastEpoch, pr, retain, tkLoop, prLoop, mainPc>>

HandlerSetWrite(h) ==
    /\ hs[h].pc = "setWrite"
    /\ files' = SetWriteFiles(hs[h], files)
    /\ hs' = [hs EXCEPT ![h] = SetWrite(hs[h], "deliver")]
    /\ UNCHANGED <<lru, tk, lastEpoch, pr, retain, tkLoop, prLoop, mainPc, born>>

\* The proxy copies the response to the client after ModifyResponse has
\* returned; its ErrorHandler answers a transport error with 502.
Deliver(h) ==
    /\ hs[h].pc = "deliver"
    /\ hs' = [hs EXCEPT ![h].pc = "done",
                        ![h].client =
                            IF hs[h].status = 0
                            THEN [status |-> Status.badGateway, body |-> <<>>, ctype |-> ""]
                            ELSE [status |-> hs[h].status, body |-> hs[h].value,
                                  ctype |-> "upstream"]]
    /\ UNCHANGED <<files, lru, tk, lastEpoch, pr, retain, tkLoop, prLoop, mainPc, born>>

\* The handler returns and serves the next request.
Return(h) ==
    /\ hs[h].pc = "done"
    /\ hs' = [hs EXCEPT ![h] = IdleHandler]
    /\ UNCHANGED <<files, lru, tk, lastEpoch, pr, retain, tkLoop, prLoop, mainPc, born>>

\* --------------------------------------------------------- the warming loop
\* A tickle that does not compare the epoch with t.lastEpoch.
tickle_NoStaleCheck(fin, resp) ==
    LET p == ParseUint(fin.epoch)
        t1 == [IdleTickler EXCEPT !.pc = "done", !.nUp = 1, !.key = fin.epoch]
        t2 == [t1 EXCEPT !.epoch = p.val]
        t3 == [t2 EXCEPT !.nUp = 2]
    IN /\ tkLoop.pc = "run"
       /\ tk.pc = "idle"
       /\ tk' = IF fin.status # StatusOK THEN [t1 EXCEPT !.outcome = "status"]
                ELSE IF ~p.ok THEN [t1 EXCEPT !.outcome = "parse"]
                ELSE IF Peek(files, fin.epoch)
                THEN [t2 EXCEPT !.outcome = "cached", !.peeked = TRUE]
                ELSE IF resp.status # StatusOK
                THEN [t3 EXCEPT !.outcome = "status", !.peeked = TRUE]
                ELSE IF Len(resp.body) = 0
                THEN [t3 EXCEPT !.outcome = "empty", !.peeked = TRUE]
                ELSE [t3 EXCEPT !.pc = "setStat", !.peeked = TRUE, !.nSet = 1,
                                !.value = resp.body]
       /\ UNCHANGED <<files, lru, hs, lastEpoch, pr, retain, tkLoop, prLoop, mainPc, born>>

\* tickler.tickle from its entry to the call of t.c.Set or an early return.
\* Both requests go through cachingProxy; neither carries mux variables, so
\* onCachingProxyResponse does not call c.Set for them.  A transport error
\* reaches the tickler's response writer as the ErrorHandler's 502.
tickle(fin, resp) ==
    LET p == ParseUint(fin.epoch)
        t1 == [IdleTickler EXCEPT !.pc = "done", !.nUp = 1, !.key = fin.epoch]
        t2 == [t1 EXCEPT !.epoch = p.val]
        t3 == [t2 EXCEPT !.nUp = 2]
    IN /\ tkLoop.pc = "run"
       /\ tk.pc = "idle"
       /\ tk' = IF fin.status # StatusOK THEN [t1 EXCEPT !.outcome = "status"]
                ELSE IF ~p.ok THEN [t1 EXCEPT !.outcome = "parse"]
                ELSE IF p.val <= lastEpoch THEN [t2 EXCEPT !.outcome = "stale"]
                ELSE IF Peek(files, fin.epoch)
                THEN [t2 EXCEPT !.outcome = "cached", !.peeked = TRUE]
                ELSE IF resp.status # StatusOK
                THEN [t3 EXCEPT !.outcome = "status", !.peeked = TRUE]
                ELSE IF Len(resp.body) = 0
                THEN [t3 EXCEPT !.outcome = "empty", !.peeked = TRUE]
                ELSE [t3 EXCEPT !.pc = "setStat", !.peeked = TRUE, !.nSet = 1,
                                !.value = resp.body]
       /\ UNCHANGED <<files, lru, hs, lastEpoch, pr, retain, tkLoop, prLoop, mainPc, born>>

TicklerSetStat ==
    /\ tk.pc = "setStat"
    /\ tk' = SetStat(tk, files, "update")
    /\ UNCHANGED <<files, lru, hs, lastEpoch, pr, retain, tkLoop, prLoop, mainPc, born>>

TicklerSetCreate ==
    /\ tk.pc = "setCreate"
    /\ files' = SetCreateFiles(tk, files)
    /\ tk' = SetCreate(tk)
    /\ born' = Born(tk)
    /\ UNCHANGED <<lru, hs, lastEpoch, pr, retain, tkLoop, prLoop, mainPc>>

TicklerSetWrite ==
    /\ tk.pc = "setWrite"
    /\ files' = SetWriteFiles(tk, files)
    /\ tk' = SetWrite(tk, "update")
    /\ UNCHANGED <<lru, hs, lastEpoch, pr, retain, tkLoop, prLoop, mainPc, born>>

\* t.lastEpoch = epoch, after t.c.Set has returned.
tickleUpdate ==
    /\ tk.pc = "update"
    /\ lastEpoch' = tk.epoch
    /\ tk' = [tk EXCEPT !.pc = "done", !.outcome = "set"]
    /\ UNCHANGED <<files, lru, hs, pr, retain, tkLoop, prLoop, mainPc, born>>

\* tickle returns; the goroutine goes to its select.
tickleReturn ==
    /\ tk.pc = "done"
    /\ tk' = IdleTickler
    /\ tkLoop' = [tkLoop EXCEPT !.pc = "select"]
    /\ UNCHANGED <<files, lru, hs, lastEpoch, pr, retain, prLoop, mainPc, born>>

\* The runtime sends a tick on a running ticker's channel; a tick that
\* finds the channel full is dropped.
Tick(l) == [l EXCEPT !.tick = TRUE]

\* select, case <-ticker.C: the tick is taken and the work is called.
SelectTick(l) == [l EXCEPT !.tick = FALSE, !.pc = "run"]

\* select, case <-done: a value is taken, or the channel is closed and
\* empty; the goroutine returns.
CanSelectDone(l) == l.done > 0 \/ l.closed
SelectDone(l) == [l EXCEPT !.done = IF l.done > 0 THEN l.done - 1 ELSE 0, !.pc = "exited"]

\* ticker.Stop(): no more ticks are sent; the channel is not drained.
TickerStop(l) == [l EXCEPT !.ticking = FALSE]

\* A send that does not reach the channel.
SignalDone_Lost(l) == l

\* done <- true, on a channel of capacity 1.
CanSignalDone(l) == l.done < 1 /\ ~l.closed
SignalDone(l) == [l EXCEPT !.done = l.done + 1]

TicklerTick ==
    /\ tkLoop.ticking /\ ~tkLoop.tick
    /\ tkLoop' = Tick(tkLoop)
    /\ UNCHANGED <<files, lru, hs, tk, lastEpoch, pr, retain, prLoop, mainPc, born>>

TicklerSelectTick ==
    /\ tkLoop.pc = "select" /\ tkLoop.tick
    /\ tkLoop' = SelectTick(tkLoop)
    /\ UNCHANGED <<files, lru, hs, tk, lastEpoch, pr, retain, prLoop, mainPc, born>>

TicklerSelectDone ==
    /\ tkLoop.pc = "select" /\ CanSelectDone(tkLoop)
    /\ tkLoop' = SelectDone(tkLoop)
    /\ UNCHANGED <<files, lru, hs, tk, lastEpoch, pr, retain, prLoop, mainPc, born>>

\* The goroutine of tickler.start until it is told to stop.
TicklerNext ==
    \/ \E fin \in FinalityResponses, resp \in UpResponses : tickle(fin, resp)
    \/ TicklerSetStat
    \/ TicklerSetCreate
    \/ TicklerSetWrite
    \/ tickleUpdate
    \/ tickleReturn
    \/ TicklerTick
    \/ TicklerSelectTick

\* ------------------------------------------------------ the retention pruner
\* fileNames[:uint(len(fileNames))-n+1]
toDelete(fileNames, n) == SubSeq(fileNames, 1, Len(fileNames) - n + 1)

\* A prune that calls Prune when count is 0, which then keeps none.
prune_NoZeroCheck ==
    LET names == DOMAIN files
        fileNames == SortStrings(names)
        p == [IdlePruner EXCEPT !.called = TRUE, !.listed = fileNames]
    IN /\ prLoop.pc = "run"
       /\ pr.pc = "idle"
       /\ pr' = IF Cardinality(names) <= retain THEN [p EXCEPT !.pc = "done"]
                ELSE [p EXCEPT !.pc = "remove",
                               !.todo = IF retain = 0 THEN fileNames
                                        ELSE toDelete(fileNames, retain)]
       /\ UNCHANGED <<files, lru, hs, tk, lastEpoch, retain, tkLoop, prLoop, mainPc, born>>

\* prune(count): the count == 0 return, or diskCache.Prune up to the slice
\* of names to delete, taken from one ReadDir listing.
prune ==
    LET names == DOMAIN files
        fileNames == SortStrings(names)
        p == [IdlePruner EXCEPT !.called = TRUE, !.listed = fileNames]
    IN /\ prLoop.pc = "run"
       /\ pr.pc = "idle"
       /\ pr' = IF retain = 0 THEN [IdlePruner EXCEPT !.pc = "done"]
                ELSE IF Cardinality(names) <= retain THEN [p EXCEPT !.pc = "done"]
                ELSE [p EXCEPT !.pc = "remove", !.todo = toDelete(fileNames, retain)]
       /\ UNCHANGED <<files, lru, hs, tk, lastEpoch, retain, tkLoop, prLoop, mainPc, born>>

\* A round of Prune's loop that reads the directory again and removes the
\* name that sorts first in it now.
PruneRemove_Relist ==
    LET n == IF DOMAIN files = {} THEN Head(pr.todo)
             ELSE Head(SortStrings(DOMAIN files))
        rest == Tail(pr.todo)
    IN /\ pr.pc = "remove"
       /\ IF n \in DOMAIN files
          THEN /\ files' = RemoveFiles(files, {n})
               /\ pr' = [pr EXCEPT !.todo = rest, !.removed = pr.removed \cup {n},
                                   !.ret = pr.ret + 1,
                                   !.pc = IF rest = <<>> THEN "done" ELSE "remove"]
               /\ hs' = [h \in Handlers |-> Orphan(hs[h], {n})]
               /\ tk' = Orphan(tk, {n})
          ELSE /\ pr' = [pr EXCEPT !.pc = "done", !.ret = 0, !.err = TRUE]
               /\ UNCHANGED <<files, hs, tk>>
       /\ UNCHANGED <<lru, lastEpoch, retain, tkLoop, prLoop, mainPc, born>>

\* One round of Prune's loop: os.Remove of the next name; an error (the
\* file is gone) ends Prune with (0, err).
PruneRemove ==
    LET n == Head(pr.todo)
        rest == Tail(pr.todo)
    IN /\ pr.pc = "remove"
       /\ IF n \in DOMAIN files
          THEN /\ files' = RemoveFiles(files, {n})
               /\ pr' = [pr EXCEPT !.todo = rest, !.removed = pr.removed \cup {n},
                                   !.ret = pr.ret + 1,
                                   !.pc = IF rest = <<>> THEN "done" ELSE "remove"]
               /\ hs' = [h \in Handlers |-> Orphan(hs[h], {n})]
               /\ tk' = Orphan(tk, {n})
          ELSE /\ pr' = [pr EXCEPT !.pc = "done", !.ret = 0, !.err = TRUE]
               /\ UNCHANGED <<files, hs, tk>>
       /\ UNCHANGED <<lru, lastEpoch, retain, tkLoop, prLoop, mainPc, born>>

\* prune returns; the goroutine goes to its select.
PruneReturn ==
    /\ pr.pc = "done"
    /\ pr' = IdlePruner
    /\ prLoop' = [prLoop EXCEPT !.pc = "select"]
    /\ born' = {}
    /\ UNCHANGED <<files, lru, hs, tk, lastEpoch, retain, tkLoop, mainPc>>

PrunerTick ==
    /\ prLoop.ticking /\ ~prLoop.tick
    /\ prLoop' = Tick(prLoop)
    /\ UNCHANGED <<files, lru, hs, tk, lastEpoch, pr, retain, tkLoop, mainPc, born>>

PrunerSelectTick ==
    /\ prLoop.pc = "select" /\ prLoop.tick
    /\ prLoop' = SelectTick(prLoop)
    /\ UNCHANGED <<files, lru, hs, tk, lastEpoch, pr, retain, tkLoop, mainPc, born>>

PrunerSelectDone ==
    /\ prLoop.pc = "select" /\ CanSelectDone(prLoop)
    /\ prLoop' = SelectDone(prLoop)
    /\ UNCHANGED <<files, lru, hs, tk, lastEpoch, pr, retain, tkLoop, mainPc, born>>

\* The pruning goroutine of main until it is told to stop.
PrunerNext ==
    \/ prune
    \/ PruneRemove
    \/ PruneReturn
    \/ PrunerTick
    \/ PrunerSelectTick

\* ------------------------------------------------------------- shutdown
\* main receives the interrupt.
MainInterrupt ==
    /\ mainPc = "wait"
    /\ mainPc' = "pruneTickerStop"
    /\ UNCHANGED <<files, lru, hs, tk, lastEpoch, pr, retain, tkLoop, prLoop, born>>

\* main: ticker.Stop() on the pruning ticker.
MainTickerStop ==
    /\ mainPc = "pruneTickerStop"
    /\ prLoop' = TickerStop(prLoop)
    /\ mainPc' = "pruneSignal"
    /\ UNCHANGED <<files, lru, hs, tk, lastEpoch, pr, retain, tkLoop, born>>

\* main: done <- true.
MainSignalDone ==
    /\ mainPc = "pruneSignal"
    /\ CanSignalDone(prLoop)
    /\ prLoop' = SignalDone(prLoop)
    /\ mainPc' = "pruneClose"
    /\ UNCHANGED <<files, lru, hs, tk, lastEpoch, pr, retain, tkLoop, born>>

\* main: close(done).
MainCloseDone ==
    /\ mainPc = "pruneClose"
    /\ prLoop' = [prLoop EXCEPT !.closed = TRUE]
    /\ mainPc' = "stop"
    /\ UNCHANGED <<files, lru, hs, tk, lastEpoch, pr, retain, tkLoop, born>>

\* tickler.stop(): t.ticker.Stop().
stop ==
    /\ mainPc = "stop"
    /\ tkLoop' = TickerStop(tkLoop)
    /\ mainPc' = "stopSignal"
    /\ UNCHANGED <<files, lru, hs, tk, lastEpoch, pr, retain, prLoop, born>>

\* tickler.stop(): t.done <- true, and stop returns to main, which shuts
\* the server down.
stopSignal ==
    /\ mainPc = "stopSignal"
    /\ CanSignalDone(tkLoop)
    /\ tkLoop' = SignalDone(tkLoop)
    /\ mainPc' = "shutdown"
    /\ UNCHANGED <<files, lru, hs, tk, lastEpoch, pr, retain, prLoop, born>>

MainNext ==
    \/ MainInterrupt
    \/ MainTickerStop
    \/ MainSignalDone
    \/ MainCloseDone
    \/ stop
    \/ stopSignal

RouterNext ==
    \E h \in Handlers :
        \/ \E req \in Requests : cachedQuery(h, req)
        \/ \E req \in Requests : plainQuery(h, req)
        \/ \E resp \in UpResponses : ProxyResponse(h, resp)
        \/ HandlerSetStat(h)
        \/ HandlerSetCreate(h)
        \/ HandlerSetWrite(h)
        \/ Deliver(h)
        \/ Return(h)

Next ==
    \/ RouterNext
    \/ TicklerNext
    \/ TicklerSelectDone
    \/ PrunerNext
    \/ PrunerSelectDone
    \/ MainNext

Spec == Init /\ [][Next]_vars

\* One handler serving one request after the other.
SingleNext ==
    \/ \E req \in Requests : cachedQuery(1, req)
    \/ \E req \in Requests : plainQuery(1, req)
    \/ \E resp \in UpResponses : ProxyResponse(1, resp)
    \/ HandlerSetStat(1)
    \/ HandlerSetCreate(1)
    \/ HandlerSetWrite(1)
    \/ Deliver(1)
    \/ Return(1)

SpecRouter == Init /\ [][SingleNext]_vars

\* All handlers at once, on requests for the committees of the newest epoch,
\* which the upstream answers well.
GoodRequests == {r \in Requests : r.path = "committees" /\ r.epoch = Sprint(MaxEpoch)}
GoodResponses == {[status |-> StatusOK, body |-> UpstreamJson(m)] : m \in 1..MaxMsg}

RaceNext ==
    \E h \in Handlers :
        \/ \E req \in GoodRequests : cachedQuery(h, req)
        \/ \E resp \in GoodResponses : ProxyResponse(h, resp)
        \/ HandlerSetStat(h)
        \/ HandlerSetCreate(h)
        \/ HandlerSetWrite(h)
        \/ Deliver(h)
        \/ Return(h)

SpecRace == Init /\ [][RaceNext]_vars
SpecWarm == Init /\ [][TicklerNext]_vars
SpecPrune == Init /\ [][PrunerNext]_vars

\* One handler, on requests for the committees of an epoch which the
\* upstream answers well, beside the pruning goroutine's first run.
EpochRequests == {r \in Requests : r.path = "committees" /\ r.epoch \in EpochStrs}

PruneRaceNext ==
    \/ \E req \in EpochRequests : cachedQuery(1, req)
    \/ \E resp \in GoodResponses : ProxyResponse(1, resp)
    \/ HandlerSetStat(1)
    \/ HandlerSetCreate(1)
    \/ HandlerSetWrite(1)
    \/ Deliver(1)
    \/ Return(1)
    \/ prune
    \/ PruneRemove
    \/ PruneReturn

SpecPruneRace == Init /\ [][PruneRaceNext]_vars

\* One handler on a directory whose epochs lie up to LookAhead and one more
\* apart, with an upstream that does not answer.
FarEpochs == {9, 10, 9 + LookAhead, 10 + LookAhead}
FarDirs ==
    UNION {[{fileName(Sprint(e)) : e \in S} -> {ProtoMarshal(1), TornRecord}] :
              S \in SUBSET FarEpochs}
FarRequests ==
    {[path |-> "committees", hasEpoch |-> TRUE, epoch |-> Sprint(e), accept |-> a] :
        e \in FarEpochs, a \in {AcceptPb, AcceptAny}}

InitFar ==
    /\ files \in FarDirs
    /\ lru = <<>>
    /\ hs = [h \in Handlers |-> IdleHandler]
    /\ tk = IdleTickler
    /\ lastEpoch = 0
    /\ pr = IdlePruner
    /\ retain \in 0..MaxRetain
    /\ tkLoop = StartedLoop
    /\ prLoop = StartedLoop
    /\ mainPc = "wait"
    /\ born = {}

LookAheadNext ==
    \/ \E req \in FarRequests : cachedQuery(1, req)
    \/ ProxyResponse(1, NoResponse)
    \/ Deliver(1)
    \/ Return(1)

SpecLookAhead == InitFar /\ [][LookAheadNext]_vars

\* One handler, on requests for the committees of an epoch, with an
\* upstream that fails: it answers 503, with any body, or not at all.
FailedResponses ==
    {[status |-> Status.unavailable, body |-> b] : b \in OkBodies} \cup {NoResponse}

UpstreamErrorNext ==
    \/ \E req \in EpochRequests : cachedQuery(1, req)
    \/ \E resp \in FailedResponses : ProxyResponse(1, resp)
    \/ HandlerSetStat(1)
    \/ HandlerSetCreate(1)
    \/ HandlerSetWrite(1)
    \/ Deliver(1)
    \/ Return(1)

SpecUpstreamError == Init /\ [][UpstreamErrorNext]_vars

\* The two background goroutines and main's shutdown, with no client.
StopNext ==
    \/ TicklerNext
    \/ TicklerSelectDone
    \/ PrunerNext
    \/ PrunerSelectDone
    \/ MainNext

SpecStop == Init /\ [][StopNext]_vars

\* The tickler's goroutine and main's shutdown.
StopWarmNext ==
    \/ TicklerNext
    \/ TicklerSelectDone
    \/ MainNext

\* The steps of the tickler's goroutine; the scheduler lets a goroutine
\* that can run do so, and the upstream answers.
TicklerStep ==
    \/ \E fin \in FinalityResponses, resp \in UpResponses : tickle(fin, resp)
    \/ TicklerSetStat
    \/ TicklerSetCreate
    \/ TicklerSetWrite
    \/ tickleUpdate
    \/ tickleReturn
    \/ TicklerSelectTick
    \/ TicklerSelectDone

SpecStopWarm == Init /\ [][StopWarmNext]_vars /\ WF_vars(TicklerStep)

\* ================================================================ claims
Accepts == {AcceptPb, AcceptAny}

\* What a client would be answered from the cache for key: Get's result and
\* bytes under each Accept.
GetView(fs, l, key) ==
    [a \in Accepts |-> [res |-> Get(fs, l, a, key).res, body |-> Get(fs, l, a, key).body]]

\* C1 (SpecRace).  Write-once: a Set that is called for a key whose record
\* exists returns the "exists" error at once, touches no file, and leaves
\* what Get answers for the key as it was.
C1_WriteOnce ==
    [][\A h \in Handlers :
          (/\ hs[h].pc = "setStat"
           /\ hs'[h] # hs[h]
           /\ fileName(hs[h].key) \in DOMAIN files)
          => /\ hs'[h].pc = "deliver"
             /\ hs'[h].setRes = "exists"
             /\ hs'[h].fd = "none"
             /\ files' = files
             /\ GetView(files', lru', hs[h].key) = GetView(files, lru, hs[h].key)]_vars

\* C1 witness: one handler's Set(key, v1) has succeeded, another handler's
\* later Set(key, v2), v2 # v1, has returned the error, and the record is
\* the one v1 was converted to.
C1_Witness ==
    \E g, h \in Handlers :
        /\ g # h
        /\ hs[g].setRes = "ok" /\ hs[h].setRes = "exists"
        /\ hs[g].key = hs[h].key /\ hs[g].value # hs[h].value
        /\ fileName(hs[g].key) \in DOMAIN files
        /\ files[fileName(hs[g].key)] = ProtoMarshal(JsonUnmarshal(hs[g].value).msg)

\* C2 (SpecRace), the claim as stated: of the Set calls in flight or just
\* returned for one key, at most one succeeds.
C2_AtMostOneSetSucceeds ==
    \A g, h \in Handlers :
        (g # h /\ hs[g].key = hs[h].key /\ hs[g].setRes = "ok")
        => hs[h].setRes # "ok"

Range(q) == {q[i] : i \in 1..Len(q)}

\* C3 (SpecPrune), the claim as stated: a Prune(n) that listed m records
\* has, when it returns, deleted and reported m - n of them and left n if
\* m > n, and deleted none if m <= n.
C3_RetentionCount ==
    (pr.pc = "done" /\ pr.called /\ ~pr.err)
    => LET m == Len(pr.listed)
       IN IF m > retain
          THEN /\ pr.ret = m - retain
               /\ Cardinality(pr.removed) = m - retain
               /\ Cardinality(DOMAIN files) = retain
          ELSE /\ pr.ret = 0
               /\ pr.removed = {}
               /\ DOMAIN files = Range(pr.listed)

C5_CacheHitShortCircuit ==
    \A h \in Handlers :
        hs[h].getRes = "hit"
        => /\ hs[h].pc = "done"
           /\ hs[h].nGet = 1 /\ hs[h].nUp = 0 /\ hs[h].nSet = 0
           /\ hs[h].setRes = "none" /\ hs[h].status = 0
           /\ hs[h].client.status = StatusOK
           /\ \E a \in Accepts :
                 LET g == Get(files, lru, a, hs[h].key)
                 IN /\ g.res = "present"
                    /\ hs[h].client.body = g.body
                    /\ hs[h].client.ctype = g.ctype

\* C5 witness: a hit served as JSON converted from the stored record.
C5_Witness ==
    \E h \in Handlers :
        /\ hs[h].getRes = "hit"
        /\ fileName(hs[h].key) \in DOMAIN files
        /\ files[fileName(hs[h].key)] = ProtoMarshal(1)
        /\ hs[h].client.body = CanonJson(1)
        /\ hs[h].client.ctype = "application/json"

\* The response the reverse proxy hands the client for the upstream's
\* answer held in rec.
Proxied(rec) ==
    IF rec.status = 0
    THEN [status |-> Status.badGateway, body |-> <<>>, ctype |-> ""]
    ELSE [status |-> rec.status, body |-> rec.value, ctype |-> "upstream"]

\* C6 (SpecRouter).  A finished request on the committees route that
\* missed the cache and got a well-formed 200 from the upstream made one
\* upstream request and one Set, which succeeded; the client has the
\* upstream's bytes, and the record of the epoch exists and holds the
\* converted message.
C6_MissThenPopulate ==
    \A h \in Handlers :
        (/\ hs[h].pc = "done" /\ hs[h].route = "cached" /\ hs[h].getRes = "miss"
         /\ hs[h].status = StatusOK /\ JsonUnmarshal(hs[h].value).ok)
        => /\ hs[h].nUp = 1 /\ hs[h].nSet = 1 /\ hs[h].setRes = "ok"
           /\ hs[h].client = [status |-> StatusOK, body |-> hs[h].value,
                              ctype |-> "upstream"]
           /\ fileName(hs[h].key) \in DOMAIN files
           /\ files[fileName(hs[h].key)] = ProtoMarshal(JsonUnmarshal(hs[h].value).msg)

\* C6 witness: such a request, answered with the upstream's message 2.
C6_Witness ==
    \E h \in Handlers :
        /\ hs[h].pc = "done" /\ hs[h].getRes = "miss" /\ hs[h].setRes = "ok"
        /\ hs[h].value = UpstreamJson(MaxMsg)
        /\ hs[h].client.body = UpstreamJson(MaxMsg)
        /\ files[fileName(hs[h].key)] = ProtoMarshal(MaxMsg)

\* C7 (SpecRouter), the claim as stated: after an upstream 200 with an
\* empty body, on the router's miss path or in the warming loop, the epoch
\* has no record.
C7_ZeroByteNeverPersisted ==
    /\ \A h \in Handlers :
          (/\ hs[h].pc \in {"deliver", "done"} /\ hs[h].getRes = "miss"
           /\ hs[h].status = StatusOK /\ Len(hs[h].value) = 0)
          => fileName(hs[h].key) \notin DOMAIN files
    /\ tk.outcome = "empty" => fileName(tk.key) \notin DOMAIN files

\* C8 (SpecWarm).  A tick whose finality answer names an epoch with a
\* record ends at once: one upstream request (the finality one), no Set,
\* and the directory, the LRU cache and lastEpoch as they were; its return
\* changes none of them either.
C8_WarmingIdempotence ==
    [][/\ (/\ tk.pc = "idle" /\ tk'.pc # "idle"
           /\ IsDigits(tk'.key) /\ fileName(tk'.key) \in DOMAIN files)
          => /\ tk'.pc = "done"
             /\ tk'.nUp = 1 /\ tk'.nSet = 0 /\ tk'.setRes = "none"
             /\ tk'.outcome \in {"stale", "cached"}
             /\ files' = files /\ lru' = lru /\ lastEpoch' = lastEpoch
       /\ (tk.pc = "done" /\ tk.outcome = "cached")
          => files' = files /\ lru' = lru /\ lastEpoch' = lastEpoch]_vars

\* C8 witness: a tick abandoned because the newly finalized epoch, later
\* than lastEpoch, has a record.
C8_Witness ==
    /\ tk.pc = "done" /\ tk.outcome = "cached"
    /\ tk.epoch > lastEpoch
    /\ fileName(tk.key) \in DOMAIN files
    /\ tk.nUp = 1 /\ tk.nSet = 0

\* C9 (SpecRouter).  A request whose Get failed is forwarded upstream, and
\* a finished request is either a cache hit or has what the reverse proxy
\* made of the one upstream exchange: the upstream's status and bytes, or
\* 502 when the upstream did not answer.
C9_CacheFailureNeverFailsClient ==
    \A h \in Handlers :
        /\ hs[h].getRes = "err"
           => /\ hs[h].pc \in {"proxy", "setStat", "setCreate", "setWrite",
                               "deliver", "done"}
              /\ hs[h].pc # "proxy" => hs[h].nUp = 1
        /\ hs[h].pc = "done"
           => \/ /\ hs[h].getRes = "hit"
                 /\ hs[h].client.status = StatusOK
                 /\ hs[h].client.ctype # "upstream"
              \/ /\ hs[h].getRes # "hit"
                 /\ hs[h].nUp = 1
                 /\ hs[h].client = Proxied(hs[h])

\* C9 witness: a finished request whose Get failed and whose client has the
\* upstream's 200 and bytes.
C9_Witness ==
    \E h \in Handlers :
        /\ hs[h].pc = "done" /\ hs[h].getRes = "err"
        /\ hs[h].client.status = StatusOK
        /\ hs[h].client.body = UpstreamJson(1)

\* C10 (SpecRouter).  While a handler serves a request whose epoch
\* parameter is absent or no base-10 unsigned integer, no step changes the
\* directory or the LRU cache, the handler has called neither Get nor Set,
\* and it has forwarded the request upstream once, once the upstream has
\* answered.
C10_MalformedEpochPassesThrough ==
    [][\A h \in Handlers :
          (hs'[h].pc # "idle" /\ (~hs'[h].hasKey \/ ~IsDigits(hs'[h].key)))
          => /\ files' = files /\ lru' = lru
             /\ hs'[h].nGet = 0 /\ hs'[h].nSet = 0
             /\ hs'[h].getRes = "none" /\ hs'[h].setRes = "none"
             /\ hs'[h].pc \in {"proxy", "deliver", "done"}
             /\ hs'[h].nUp = IF hs'[h].pc = "proxy" THEN 0 ELSE 1
             /\ hs'[h].pc = "done" => hs'[h].client = Proxied(hs'[h])]_vars

\* C10 witness: a finished request with the epoch parameter "x", answered
\* with the upstream's 200.
C10_Witness ==
    \E h \in Handlers :
        /\ hs[h].pc = "done" /\ hs[h].hasKey /\ hs[h].key = NotANumber
        /\ hs[h].nUp = 1 /\ hs[h].nGet = 0 /\ hs[h].nSet = 0
        /\ hs[h].client.status = StatusOK

\* C11 (SpecWarm).  tickler.lastEpoch never decreases, and a tick whose
\* finality answer names an epoch not above lastEpoch ends at once: no
\* Peek, no request but the finality one, no Set, nothing changed.
C11_FinalityMonotone ==
    [][/\ lastEpoch' >= lastEpoch
       /\ (/\ tk.pc = "idle" /\ tk'.pc # "idle"
           /\ IsDigits(tk'.key) /\ DigitsValue(tk'.key) <= lastEpoch)
          => /\ tk'.pc = "done"
             /\ ~tk'.peeked /\ tk'.nUp = 1 /\ tk'.nSet = 0
             /\ files' = files /\ lru' = lru /\ lastEpoch' = lastEpoch]_vars

\* C11 witness: a tick abandoned for an epoch below lastEpoch that has no
\* record.
C11_Witness ==
    /\ tk.pc = "done" /\ tk.outcome = "stale"
    /\ tk.epoch < lastEpoch
    /\ fileName(tk.key) \notin DOMAIN files
    /\ ~tk.peeked /\ tk.nUp = 1

\* C12 (SpecPrune).  With -retain 0 no step of the pruning goroutine, in
\* its first run or a later one, calls Prune or changes the directory.
C12_ZeroRetainDisables ==
    [][retain = 0
       => /\ files' = files
          /\ ~pr'.called /\ pr'.removed = {} /\ pr'.todo = <<>>
          /\ pr'.pc \in {"idle", "done"}]_vars

\* C12 witness: a run of prune that has returned with -retain 0 and every
\* epoch's record in the directory.
C12_Witness ==
    /\ retain = 0
    /\ pr.pc = "done" /\ ~pr.called
    /\ DOMAIN files = {fileName(k) : k \in EpochStrs}

\* C13 (SpecWarm), the claim as stated: a tick that sets lastEpoch is one
\* whose Set succeeded.
C13_LastEpochOnlyOnSuccess ==
    [][lastEpoch' # lastEpoch => (tk.nSet = 1 /\ tk.setRes = "ok")]_vars

SetPcs == {"setStat", "setCreate", "setWrite"}

\* C14 (SpecRouter), the claim as stated: the delivery of the upstream's
\* response does not wait for Set; while a handler's Set for a missed
\* epoch is under way, the client has the response or the proxy can hand
\* it over.
C14_ResponseNotOrderedAfterSet ==
    \A h \in Handlers :
        hs[h].pc \in SetPcs
        => \/ hs[h].client = Proxied(hs[h])
           \/ ENABLED Deliver(h)

\* C15 (SpecStopWarm).  tickler.stop() does not block: its send finds room
\* in t.done.  Once stop() has returned the goroutine of start() exits,
\* given that a tick in flight finishes, and once it has exited it stays
\* so: it does not select on the ticker again.
C15_StopTerminatesLoop ==
    /\ [](mainPc = "stopSignal" => ENABLED stopSignal)
    /\ (mainPc = "shutdown") ~> (tkLoop.pc = "exited")
    /\ [][tkLoop.pc = "exited" => tkLoop'.pc = "exited" /\ tk' = tk]_vars

\* C15 witness: after a tick that set lastEpoch, stop() has returned and
\* the goroutine has taken the value from t.done and exited.
C15_Witness ==
    /\ mainPc = "shutdown"
    /\ tkLoop.pc = "exited"
    /\ tkLoop.done = 0 /\ ~tkLoop.ticking
    /\ lastEpoch > 0

\* The stop signal has reached the loop l: a value is in its done channel,
\* or the channel is closed.
Signalled(l) == l.done > 0 \/ l.closed

\* C16 (SpecStop), the claim as stated: once the stop signal has reached
\* the warming loop or the pruning loop, that loop starts no tickle and no
\* prune, a tick waiting in the ticker's channel notwithstanding.
C16_NoTickAfterStop ==
    [][/\ Signalled(tkLoop) => ~(tkLoop.pc = "select" /\ tkLoop'.pc = "run")
       /\ Signalled(prLoop) => ~(prLoop.pc = "select" /\ prLoop'.pc = "run")]_vars

\* C17 (SpecPruneRace), the claim as stated: Prune deletes only names of
\* its listing, and no step of it deletes a record that a Set created
\* after the listing was taken.
C17_NeverDeletesLaterRecord ==
    [][/\ pr'.removed \subseteq Range(pr'.listed)
       /\ (pr'.removed \ pr.removed) \cap born = {}]_vars

\* C17 as amended (SpecPruneRace).  Prune works on one listing: it is not
\* taken again during the run, every file a step of Prune deletes has a
\* name of the listing, and a record created under a name that is not in
\* the listing is not deleted by it.
C17_SingleSnapshot ==
    [][pr' # pr
       => /\ pr.pc = "remove" => (pr'.pc \in {"remove", "done"} /\ pr'.listed = pr.listed)
          /\ (DOMAIN files \ DOMAIN files') \subseteq Range(pr.listed)
          /\ (DOMAIN files \ DOMAIN files') \subseteq (pr'.removed \ pr.removed)
          /\ pr'.removed \subseteq Range(pr'.listed)
          /\ (born \ Range(pr.listed)) \cap DOMAIN files \subseteq DOMAIN files']_vars

\* C17 witness: Prune is done, having deleted files, and a record created
\* during the run under a name that was not listed is in the directory.
C17_Witness ==
    /\ pr.pc = "done" /\ pr.removed # {}
    /\ \E b \in born : b \notin Range(pr.listed) /\ b \in DOMAIN files

\* C18 (SpecRouter), the claim as stated: right after a Get that failed,
\* the key has no record (Peek is false) and a next Get of the key is
\* absent, whatever the LRU cache holds.
C18_CorruptRecordsPurged ==
    \A h \in Handlers :
        (hs[h].pc = "proxy" /\ hs[h].getRes = "err")
        => /\ ~Peek(files, hs[h].key)
           /\ \A a \in Accepts : Get(files, lru, a, hs[h].key).res = "absent"

\* C20 (SpecPruneRace), the claim as stated: Get answers present only for
\* a key that has a record in the directory.
C20_LruNotSourceOfTruth ==
    \A k \in EpochStrs : \A a \in Accepts :
        Get(files, lru, a, k).res = "present" => Peek(files, k)

LruNames(l) == {l[i].name : i \in 1..Len(l)}

\* C19 (SpecLookAhead).  A Get of key k that finds k's file and not k in
\* the LRU cache adds to the cache the names of k+1 .. k+32 that have a
\* file and were not in it, with the files' bytes, and no other; a Get
\* that finds k in the cache or no file adds nothing, and no other step
\* changes the cache.
C19_BoundedLookAhead ==
    [][IF \E h \in Handlers : hs[h].pc = "idle" /\ hs'[h].nGet = 1
       THEN \A h \in Handlers :
              (hs[h].pc = "idle" /\ hs'[h].nGet = 1)
              => LET n == fileName(hs'[h].key)
                     k == DigitsValue(hs'[h].key)
                     ahead == {fileName(Sprint(i)) : i \in (k + 1)..(k + LookAhead)}
                     expect == (ahead \cap DOMAIN files) \ LruNames(lru)
                 IN IF LruHas(lru, n) \/ n \notin DOMAIN files
                    THEN lru' = lru
                    ELSE /\ LruNames(lru') = LruNames(lru) \cup expect
                         /\ Len(lru') = Len(lru) + Cardinality(expect)
                         /\ \A i \in 1..Len(lru) : lru'[i] = lru[i]
                         /\ \A i \in (Len(lru) + 1)..Len(lru') :
                               lru'[i].data = files[lru'[i].name]
       ELSE lru' = lru]_vars

\* C19 witness: after the Get of epoch 9 the cache holds 10 and 41 = 9 + 32
\* and not 42, which has a file, nor 9.
C19_Witness ==
    /\ hs[1].pc = "done" /\ hs[1].key = Sprint(9) /\ hs[1].getRes = "hit"
    /\ LruNames(lru) = {fileName(Sprint(10)), fileName(Sprint(9 + LookAhead))}
    /\ fileName(Sprint(10 + LookAhead)) \in DOMAIN files

\* C21 (SpecRouter), the claim as stated: after a Set that failed in the
\* conversion of its bytes the key has no record: Peek is false and Get is
\* absent.
C21_FailedSetLeavesStoreUnchanged ==
    \A h \in Handlers :
        (hs[h].pc \in {"deliver", "done"} /\ hs[h].getRes = "miss" /\ hs[h].setRes = "conv")
        => /\ ~Peek(files, hs[h].key)
           /\ \A a \in Accepts : Get(files, lru, a, hs[h].key).res = "absent"

\* C22 (SpecUpstreamError), the claim as stated: after the upstream has
\* answered a missed committees request with a status other than 200, the
\* epoch has no record and a Get of it is absent, so that the next request
\* goes upstream; likewise after a tick abandoned on the status.
C22_FailedResponseNeverCached ==
    /\ \A h \in Handlers :
          (/\ hs[h].pc \in {"deliver", "done"} /\ hs[h].route = "cached"
           /\ hs[h].getRes = "miss" /\ hs[h].nUp = 1 /\ hs[h].status # StatusOK)
          => /\ ~Peek(files, hs[h].key)
             /\ \A a \in Accepts : Get(files, lru, a, hs[h].key).res = "absent"
    /\ (tk.pc = "done" /\ tk.outcome = "status" /\ tk.nUp = 2)
       => ~Peek(files, tk.key)

====
